---- MODULE Spec2Model ----
(***************************************************************************)
(* The extraction-and-validation pipeline of the Prompt Engineer           *)
(* Evaluator: extractAndValidateFeedback and the flow behind it.           *)
(*                                                                         *)
(* The repository holds three revisions of the flow file:                  *)
(*   "flow"  src/src/ai/flows/extract-and-validate-feedback.ts             *)
(*   "p003"  src/unnamed/part_003  (same logic, other diagnostic text)     *)
(*   "p002"  src/unnamed/part_002  (no wrapper catch, line-by-line         *)
(*           fallback, no blank-line filter)                               *)
(*                                                                         *)
(* Representation.  A text (textContent, a model output that is a string,  *)
(* rawResponse) is a sequence of tokens.  The tokens are the characters    *)
(* that matter to the code ("\n", " ", "[", "]", ","), the letter "a" and  *)
(* the word "not json" for text that is not JSON, and one token per JSON   *)
(* literal ("{R1}" is the JSON text of the record R1).  A JavaScript value *)
(* is a record tagged by its type in field t.                              *)
(***************************************************************************)
EXTENDS Integers, Sequences, FiniteSets, TLC

VARIABLES
    pc,            \* "idle" | "calling" | "done"
    variant,       \* which revision of the flow file serves the invocation
    textContent,   \* input.textContent, a text
    outcome,       \* what the model call did: none, return(value), throw(value)
    result,        \* what extractAndValidateFeedback did: none, output, raised
    wholeParse,    \* trace: JSON.parse of the whole output: "none", "ok", "fail"
    perLine,       \* trace: the line-by-line fallback parse was attempted
    modelCalls,    \* trace: number of model calls of the current invocation
    candidates,    \* trace: the candidate handed to the validator, by position
    cand,          \* validator harness: the candidate under validation
    lineResult,    \* validator harness: the line result built from cand
    revision,          \* which revision of the dashboard is mounted
    systemInstruction, \* dashboard state: the text of the instruction field
    fileContent,       \* dashboard state: null or the text of the loaded file
    fileName,          \* dashboard state: null or the name of the chosen file
    reading,           \* the FileReader: null or the text it is about to deliver
    isProcessing,      \* dashboard state
    currentResult,     \* dashboard state: null or an output
    history,           \* dashboard state: the records, newest first
    producedBy,        \* trace: null or the instruction the shown result came from
    call,              \* the runEvaluation that awaits: its closure and its input
    mounted,           \* page state: the mount effect has run
    studentName,       \* page state: null or the name of the logged-in student
    storedName,        \* localStorage: null or the item uees_student_name
    loginName,         \* login form state: the text of the name field
    storage,           \* localStorage: per student, null or the item uees_history_<name>
    orphans,           \* the runEvaluations that await in dashboards since unmounted
    budget,            \* evaluations that can still be started
    invocations        \* concurrent callers of extractAndValidateFeedback, by slot

flowVars == <<pc, variant, textContent, outcome, result, wholeParse, perLine,
              modelCalls, candidates, cand, lineResult>>

dashVars == <<revision, systemInstruction, fileContent, fileName, reading,
              isProcessing, currentResult, history, producedBy, call>>

pageVars == <<mounted, studentName, storedName, loginName>>

appVars == <<dashVars, pageVars, storage, orphans, budget>>

vars == <<flowVars, appVars, invocations>>

(***************************************************************************)
(* Bounds                                                                  *)
(***************************************************************************)
MaxTextLen == 3   \* tokens in textContent
MaxCand == 2      \* candidates in a model output
MaxHistory == 1   \* evaluations a dashboard records
MaxEvaluations == 2   \* evaluations of a page load, over its logins
MaxOrphans == 1   \* evaluations awaiting in unmounted dashboards
MaxInvocations == 2   \* concurrent callers of extractAndValidateFeedback

(***************************************************************************)
(* JavaScript values                                                       *)
(***************************************************************************)
JUndef == [t |-> "undef"]
JNull == [t |-> "null"]
JBool(b) == [t |-> "bool", b |-> b]
JNum(n) == [t |-> "num", n |-> n]
JStr(s) == [t |-> "str", s |-> s]          \* a string held inside a value
JText(k) == [t |-> "text", k |-> k]        \* a string held as a text
JArr(a) == [t |-> "arr", a |-> a]
JObj(f) == [t |-> "obj", f |-> f]

\* typeof v === 'string'
IsString(v) == v.t \in {"str", "text"}

\* JavaScript truthiness, as used by `if (candidate)`, `parsed &&`, `x || y`
Truthy(v) ==
    CASE v.t \in {"undef", "null"} -> FALSE
      [] v.t = "bool" -> v.b
      [] v.t = "num" -> v.n # 0
      [] v.t = "str" -> v.s # ""
      [] v.t = "text" -> v.k # <<>>
      [] OTHER -> TRUE

\* The records the model outputs are built from.
R1 == JObj([entidad |-> JStr("App"), polaridad |-> JStr("Amor"),
            categoria |-> JArr(<<JStr("App")>>), urgencia |-> JBool(FALSE)])
R2 == JObj([entidad |-> JStr("Cajero"), polaridad |-> JStr("Odio"),
            categoria |-> JArr(<<JStr("Atención")>>), urgencia |-> JBool(TRUE)])
RBad == JObj([entidad |-> JStr("Cajero"), polaridad |-> JStr("Indiferente"),
              categoria |-> JArr(<<JStr("Atención")>>), urgencia |-> JBool(TRUE)])

(***************************************************************************)
(* Texts: String.prototype.split('\n') and trim()                          *)
(***************************************************************************)
Whitespace == {" ", "\n"}

RECURSIVE Split(_)
\* text.split('\n'): the lines between the line breaks; "" gives one empty line
Split(text) ==
    IF \A i \in 1..Len(text) : text[i] # "\n" THEN <<text>>
    ELSE LET p == CHOOSE i \in 1..Len(text) :
                     text[i] = "\n" /\ \A j \in 1..(i-1) : text[j] # "\n"
         IN  <<SubSeq(text, 1, p-1)>> \o Split(SubSeq(text, p+1, Len(text)))

RECURSIVE Trim(_)
\* line.trim(): leading and trailing whitespace removed
Trim(line) ==
    IF line = <<>> THEN line
    ELSE IF Head(line) \in Whitespace THEN Trim(Tail(line))
    ELSE IF line[Len(line)] \in Whitespace THEN Trim(SubSeq(line, 1, Len(line)-1))
    ELSE line

\* line => line.trim().length > 0
NonBlank(line) == Len(Trim(line)) > 0

RECURSIVE TrimEach(_)
TrimEach(lines) ==
    IF lines = <<>> THEN <<>> ELSE <<Trim(Head(lines))>> \o TrimEach(Tail(lines))

\* The line list with every line trimmed before it is kept
NonBlankLinesTrimmed(text) == TrimEach(SelectSeq(Split(text), NonBlank))

\* input.textContent.split('\n').filter(line => line.trim().length > 0)
NonBlankLines(text) == SelectSeq(Split(text), NonBlank)

\* input.textContent.split('\n') of part_002: no filter
AllLines(text) == Split(text)

(***************************************************************************)
(* JSON.parse and JSON.stringify over texts                                *)
(***************************************************************************)
\* The JSON literals that are one token, and the value each denotes.
LiteralTokens == {"{R1}", "{R2}", "{RBad}", "null", "7", "\"hola\""}

Denote(tok) ==
    CASE tok = "{R1}" -> R1
      [] tok = "{R2}" -> R2
      [] tok = "{RBad}" -> RBad
      [] tok = "null" -> JNull
      [] tok = "7" -> JNum(7)
      [] tok = "\"hola\"" -> JStr("hola")

NotWhitespace(tok) == tok \notin Whitespace

\* JSON.parse(text): [ok |-> TRUE, v |-> value], or [ok |-> FALSE] for the
\* SyntaxError.  Whitespace between tokens is insignificant; the grammar is
\* a literal, or an array of literals (the texts of the model hold no
\* nested array).
JSONparse(text) ==
    LET k == SelectSeq(text, NotWhitespace)
        n == Len(k)
    IN  IF n = 1 /\ k[1] \in LiteralTokens
        THEN [ok |-> TRUE, v |-> Denote(k[1])]
        ELSE IF n >= 2 /\ k[1] = "[" /\ k[n] = "]"
        THEN IF n = 2 THEN [ok |-> TRUE, v |-> JArr(<<>>)]
             ELSE IF /\ n % 2 = 1
                     /\ \A i \in 2..(n-1) :
                           IF i % 2 = 0 THEN k[i] \in LiteralTokens
                                        ELSE k[i] = ","
             THEN [ok |-> TRUE,
                   v |-> JArr([i \in 1..((n-1) \div 2) |-> Denote(k[2*i])])]
             ELSE [ok |-> FALSE]
        ELSE [ok |-> FALSE]

\* The token of a value that is a literal.
TokenOf(v) ==
    CASE v.t = "null" -> "null"
      [] v.t = "num" -> "7"
      [] v.t = "str" -> "\"hola\""
      [] v.t = "obj" -> IF v = R1 THEN "{R1}" ELSE IF v = R2 THEN "{R2}" ELSE "{RBad}"

RECURSIVE StringifyElems(_)
\* the elements of an array under an indent of 2: "\n  e1,\n  e2"
StringifyElems(a) ==
    IF a = <<>> THEN <<>>
    ELSE <<"\n", " ", " ", TokenOf(Head(a))>>
         \o (IF Len(a) > 1 THEN <<",">> ELSE <<>>)
         \o StringifyElems(Tail(a))

\* JSON.stringify(v, null, 2): [ok |-> TRUE, k |-> text]; undefined for the
\* value undefined is [ok |-> FALSE].
JSONstringify(v) ==
    CASE v.t = "undef" -> [ok |-> FALSE]
      [] v.t = "arr" ->
            [ok |-> TRUE,
             k |-> IF v.a = <<>> THEN <<"[", "]">>
                   ELSE <<"[">> \o StringifyElems(v.a) \o <<"\n", "]">>]
      [] OTHER -> [ok |-> TRUE, k |-> <<TokenOf(v)>>]

(***************************************************************************)
(* FeedbackSchema                                                          *)
(***************************************************************************)
Polaridades == {"Amor", "Odio"}
Categorias == {"Atención", "App", "Cajeros"}
SchemaFields == {"entidad", "polaridad", "categoria", "urgencia"}

Has(c, name) == name \in DOMAIN c.f

\* entidad as z.string().min(1): the empty string is refused
EntidadNonEmpty(c) ==
    Has(c, "entidad") /\ c.f.entidad.t = "str" /\ c.f.entidad.s # ""

\* entidad: z.string()
EntidadOk(c) == Has(c, "entidad") /\ c.f.entidad.t = "str"

\* polaridad: z.enum(['Amor', 'Odio'])
PolaridadOk(c) ==
    /\ Has(c, "polaridad")
    /\ c.f.polaridad.t = "str"
    /\ c.f.polaridad.s \in Polaridades

\* categoria: z.array(z.enum(['Atención', 'App', 'Cajeros']))
CategoriaOk(c) ==
    /\ Has(c, "categoria")
    /\ c.f.categoria.t = "arr"
    /\ \A i \in 1..Len(c.f.categoria.a) :
          /\ c.f.categoria.a[i].t = "str"
          /\ c.f.categoria.a[i].s \in Categorias

\* urgencia read with coercion: any truthy or falsy value passes
UrgenciaCoerced(c) == Has(c, "urgencia")

\* urgencia: z.boolean()
UrgenciaOk(c) == Has(c, "urgencia") /\ c.f.urgencia.t = "bool"

\* FeedbackSchema as z.object({...}).strict(): a key outside the schema is a
\* ZodError
FeedbackSchemaStrict(c) ==
    IF /\ c.t = "obj"
       /\ DOMAIN c.f \subseteq SchemaFields
       /\ EntidadOk(c) /\ PolaridadOk(c) /\ CategoriaOk(c) /\ UrgenciaOk(c)
    THEN [ok |-> TRUE, v |-> JObj([n \in SchemaFields |-> c.f[n]])]
    ELSE [ok |-> FALSE]

\* FeedbackSchema.parse(c): [ok |-> TRUE, v |-> the record with the four
\* fields of the schema (z.object drops the other keys)], or [ok |-> FALSE]
\* for the ZodError.
FeedbackSchema(c) ==
    IF /\ c.t = "obj"
       /\ EntidadOk(c) /\ PolaridadOk(c) /\ CategoriaOk(c) /\ UrgenciaOk(c)
    THEN [ok |-> TRUE, v |-> JObj([n \in SchemaFields |-> c.f[n]])]
    ELSE [ok |-> FALSE]

(***************************************************************************)
(* extractAndValidateFeedbackFlow, current revision and part_003           *)
(***************************************************************************)
\* jsonResults[index + 1]: the candidate of the next line
AtNext(js, index) == IF index + 1 \in 1..Len(js) THEN js[index + 1] ELSE JUndef

\* jsonResults[index]: undefined past the end of the array
At(js, index) == IF index \in 1..Len(js) THEN js[index] ELSE JUndef

\* const rawResponse = typeof output === 'string' ? output
\*                       : JSON.stringify(output, null, 2) || '[]'
RawResponseOf(output) ==
    IF output.t = "text" THEN output.k
    ELSE LET s == JSONstringify(output)
         IN  IF s.ok /\ s.k # <<>> THEN s.k ELSE <<"[", "]">>

\* The try block without the else-if that wraps a single object
ParseCandidatesNoWrap(output) ==
    LET p == IF output.t = "text" THEN JSONparse(output.k)
                                  ELSE [ok |-> TRUE, v |-> output]
        whole == IF output.t = "text" THEN (IF p.ok THEN "ok" ELSE "fail")
                                      ELSE "none"
    IN  IF p.ok /\ p.v.t = "arr" THEN [js |-> p.v.a, whole |-> whole]
        ELSE [js |-> <<>>, whole |-> whole]

\* The try block that recovers jsonResults from the output:
\* [js |-> jsonResults, whole |-> "none" | "ok" | "fail"]
ParseCandidates(output) ==
    LET p == IF output.t = "text" THEN JSONparse(output.k)
                                  ELSE [ok |-> TRUE, v |-> output]
        whole == IF output.t = "text" THEN (IF p.ok THEN "ok" ELSE "fail")
                                      ELSE "none"
    IN  IF ~p.ok THEN [js |-> <<>>, whole |-> whole]
        ELSE IF p.v.t = "arr" THEN [js |-> p.v.a, whole |-> whole]
        ELSE IF Truthy(p.v) /\ p.v.t = "obj" THEN [js |-> <<p.v>>, whole |-> whole]
        ELSE [js |-> <<>>, whole |-> whole]

\* The body of the map with a catch that keeps the rejected candidate
ValidateLineKeepsCandidate(line, candidate) ==
    IF Truthy(candidate)
    THEN LET parsed == FeedbackSchema(candidate)
         IN  IF parsed.ok
             THEN [originalText |-> line, parsedResult |-> parsed.v,
                   validationStatus |-> "Success"]
             ELSE [originalText |-> line, parsedResult |-> candidate,
                   validationStatus |-> "Failure"]
    ELSE [originalText |-> line, parsedResult |-> JNull,
          validationStatus |-> "Failure"]

\* The body of textLines.map((line, index) => ...) for one line
ValidateLine(line, candidate) ==
    IF Truthy(candidate)
    THEN LET parsed == FeedbackSchema(candidate)
         IN  IF parsed.ok
             THEN [originalText |-> line, parsedResult |-> parsed.v,
                   validationStatus |-> "Success"]
             ELSE [originalText |-> line, parsedResult |-> JNull,
                   validationStatus |-> "Failure"]
    ELSE [originalText |-> line, parsedResult |-> JNull,
          validationStatus |-> "Failure"]

\* The flow validating the array as a whole: one rejected candidate fails
\* every line
FlowAllOrNothing(text, output) ==
    LET textLines == NonBlankLines(text)
        pc0 == ParseCandidates(output)
        allOk == \A j \in 1..Len(pc0.js) : FeedbackSchema(pc0.js[j]).ok
    IN  [kind |-> "output",
         rawResponse |-> RawResponseOf(output),
         validatedResults |->
             [i \in 1..Len(textLines) |->
                 ValidateLine(textLines[i],
                              IF allOk THEN At(pc0.js, i) ELSE JUndef)],
         whole |-> pc0.whole,
         perLine |-> FALSE,
         candidates |-> pc0.js]

\* The flow after the model call has returned output
Flow(text, output) ==
    LET textLines == NonBlankLines(text)
        pc0 == ParseCandidates(output)
    IN  [kind |-> "output",
         rawResponse |-> RawResponseOf(output),
         validatedResults |->
             [i \in 1..Len(textLines) |-> ValidateLine(textLines[i], At(pc0.js, i))],
         whole |-> pc0.whole,
         perLine |-> FALSE,
         candidates |-> pc0.js]

(***************************************************************************)
(* extractAndValidateFeedback, current revision and part_003: the catch    *)
(***************************************************************************)
DiagnosticPrefix(v) ==
    IF v = "flow" THEN "Error en la evaluación: " ELSE "Error crítico en el modelo: "

DefaultMessage(v) ==
    IF v = "flow" THEN "Error desconocido del motor de IA" ELSE "Sin respuesta del agente"

\* error.message: a TypeError when error is null or undefined, undefined
\* when the thrown value has no such property
MessageOf(error) ==
    IF error.t \in {"null", "undef"} THEN [ok |-> FALSE]
    ELSE IF error.t = "obj" /\ "message" \in DOMAIN error.f
    THEN [ok |-> TRUE, v |-> error.f.message]
    ELSE [ok |-> TRUE, v |-> JUndef]

\* The catch block of the wrapper
Catch(v, text, error) ==
    LET m == MessageOf(error)
        textLines == NonBlankLines(text)
    IN  IF ~m.ok THEN [kind |-> "raised"]
        ELSE [kind |-> "output",
              rawResponse |-> <<DiagnosticPrefix(v),
                                IF Truthy(m.v) THEN m.v.s ELSE DefaultMessage(v)>>,
              validatedResults |->
                  [i \in 1..Len(textLines) |->
                      [originalText |-> textLines[i], parsedResult |-> JNull,
                       validationStatus |-> "Failure"]],
              whole |-> "none",
              perLine |-> FALSE,
              candidates |-> <<>>]

(***************************************************************************)
(* extractAndValidateFeedbackFlow of part_002                              *)
(***************************************************************************)
\* item => { try { return FeedbackSchema.parse(item) } catch { return null } }
ParseOrNull(item) ==
    LET parsed == FeedbackSchema(item) IN IF parsed.ok THEN parsed.v ELSE JNull

\* line => { try { JSON.parse(line) ... FeedbackSchema.parse } catch { null } }
ParseLineOrNull(line) ==
    LET p == JSONparse(line) IN IF p.ok THEN ParseOrNull(p.v) ELSE JNull

\* The flow of part_002 after the model call has returned output, a string
\* (the prompt declares output z.string())
Flow002(text, output) ==
    LET textLines == AllLines(text)
        p == JSONparse(output.k)
        mapped == p.ok /\ p.v.t = "arr"
        jsonResults ==
            IF mapped THEN [i \in 1..Len(p.v.a) |-> ParseOrNull(p.v.a[i])]
            ELSE [i \in 1..Len(textLines) |-> ParseLineOrNull(textLines[i])]
        items ==
            IF mapped THEN p.v.a
            ELSE [i \in 1..Len(textLines) |->
                     LET q == JSONparse(textLines[i])
                     IN  IF q.ok THEN q.v ELSE JUndef]
        validated ==
            [i \in 1..Len(textLines) |->
                LET parsedResult == IF Truthy(At(jsonResults, i))
                                    THEN At(jsonResults, i) ELSE JNull
                IN  [originalText |-> textLines[i],
                     parsedResult |-> parsedResult,
                     validationStatus |->
                         IF Truthy(parsedResult) THEN "Success" ELSE "Failure"]]
    IN  [kind |-> "output", rawResponse |-> output.k,
         validatedResults |-> validated,
         whole |-> IF p.ok THEN "ok" ELSE "fail", perLine |-> ~mapped,
         candidates |-> items]

(***************************************************************************)
(* The score the dashboard computes from an output                         *)
(***************************************************************************)
\* output.validatedResults.filter(r => r.validationStatus === "Success").length
Score(output) ==
    Cardinality({i \in 1..Len(output.validatedResults) :
                    output.validatedResults[i].validationStatus = "Success"})

\* output.validatedResults.length
Total(output) == Len(output.validatedResults)

(***************************************************************************)
(* The inputs                                                              *)
(***************************************************************************)
Variants == {"flow", "p002", "p003"}

BoundedSeq(S, n) == UNION {[1..m -> S] : m \in 0..n}

TextTokens == {"a", " ", "\n", "{R1}"}
TextContents == BoundedSeq(TextTokens, MaxTextLen)

CandAtoms == {R1, R2, RBad, JNull}
CandSeqs == BoundedSeq(CandAtoms, MaxCand)

\* Outputs that are not strings
StructuredOutputs ==
    {JArr(a) : a \in CandSeqs} \cup {R1, RBad, JNull, JNum(7), JUndef}

RECURSIVE Join(_, _)
Join(a, sep) ==
    IF a = <<>> THEN <<>>
    ELSE IF Len(a) = 1 THEN <<TokenOf(a[1])>>
    ELSE <<TokenOf(a[1]), sep>> \o Join(Tail(a), sep)

\* Outputs that are strings: JSON texts, indented or not, one JSON value a
\* line, text that is not JSON, a JSON string literal and the empty string
TextOutputs ==
    {JText(JSONstringify(v).k) : v \in StructuredOutputs \ {JUndef}}
    \cup {JText(<<"[">> \o Join(a, ",") \o <<"]">>) : a \in CandSeqs}
    \cup {JText(Join(a, "\n")) : a \in CandSeqs}
    \cup {JText(<<"not json">>), JText(<<"\"hola\"">>)}

ModelOutputs == StructuredOutputs \cup TextOutputs

\* What the model call can throw: an Error with a message, an Error with an
\* empty message, a value without a message property, null and undefined
ThrownValues ==
    {JObj([message |-> JStr("quota exceeded")]), JObj([message |-> JStr("")]),
     JObj([code |-> JNum(7)]), JNull, JUndef}

\* What can be typed into the name field of the login form
NameInputs ==
    {<<>>, <<"a", "n">>, <<" ", "a", "n", " ">>, <<"a", "n", "a">>,
     <<" ", "a", "n", "a">>, <<"e", "v", "a">>}

\* The names a login can pass on
Students == {Trim(n) : n \in {m \in NameInputs : Len(Trim(m)) >= 3}}

(***************************************************************************)
(* One invocation of extractAndValidateFeedback                            *)
(***************************************************************************)
NoOutcome == [kind |-> "none"]
NoResult == [kind |-> "none"]
NoLine == [originalText |-> <<>>, parsedResult |-> JNull,
           validationStatus |-> "Pending"]
NoCall == [kind |-> "none"]

\* The dashboard right after it has mounted for a student without saved
\* history: the initial values of its useState hooks.
Mounted(r) ==
    /\ revision = r
    /\ systemInstruction = <<>>
    /\ fileContent = JNull
    /\ fileName = JNull
    /\ reading = JNull
    /\ isProcessing = FALSE
    /\ currentResult = JNull
    /\ history = <<>>
    /\ producedBy = JNull
    /\ call = NoCall

\* The page before its mount effect, in a browser that has stored nothing
NotLoaded ==
    /\ mounted = FALSE
    /\ studentName = JNull
    /\ storedName = JNull
    /\ loginName = <<>>
    /\ storage = [s \in Students |-> JNull]
    /\ orphans = <<>>
    /\ budget = 0

IdleInvocation == [pc |-> "idle"]

NoInvocations == invocations = [i \in 1..MaxInvocations |-> IdleInvocation]

Init ==
    /\ pc = "idle"
    /\ variant = "flow"
    /\ textContent = <<>>
    /\ outcome = NoOutcome
    /\ result = NoResult
    /\ wholeParse = "none"
    /\ perLine = FALSE
    /\ modelCalls = 0
    /\ candidates = <<>>
    /\ cand = JUndef
    /\ lineResult = NoLine
    /\ Mounted("part_001")
    /\ NotLoaded
    /\ NoInvocations

\* The caller invokes extractAndValidateFeedback(input); the wrapper enters
\* the flow, which awaits extractFeedbackPrompt(input).
Invoke ==
    /\ pc = "idle"
    /\ \E v \in Variants, text \in TextContents :
          /\ variant' = v
          /\ textContent' = text
    /\ pc' = "calling"
    /\ modelCalls' = 1
    /\ outcome' = NoOutcome
    /\ result' = NoResult
    /\ wholeParse' = "none"
    /\ perLine' = FALSE
    /\ candidates' = <<>>
    /\ UNCHANGED <<cand, lineResult>>
    /\ UNCHANGED <<appVars, invocations>>

\* The flow finishes after calling the model a second time
FinishedAfterRetry(r) ==
    /\ pc' = "done"
    /\ result' = IF r.kind = "output"
                 THEN [kind |-> "output", rawResponse |-> r.rawResponse,
                       validatedResults |-> r.validatedResults]
                 ELSE [kind |-> "raised"]
    /\ wholeParse' = r.whole
    /\ perLine' = r.perLine
    /\ candidates' = r.candidates
    /\ modelCalls' = modelCalls + 1
    /\ UNCHANGED <<variant, textContent, cand, lineResult>>
    /\ UNCHANGED <<appVars, invocations>>

Finished(r) ==
    /\ pc' = "done"
    /\ result' = IF r.kind = "output"
                 THEN [kind |-> "output", rawResponse |-> r.rawResponse,
                       validatedResults |-> r.validatedResults]
                 ELSE [kind |-> "raised"]
    /\ wholeParse' = r.whole
    /\ perLine' = r.perLine
    /\ candidates' = r.candidates
    /\ UNCHANGED <<variant, textContent, modelCalls, cand, lineResult>>
    /\ UNCHANGED <<appVars, invocations>>

\* The model call resolves with output; the rest of the flow runs.
ModelReturns ==
    /\ pc = "calling"
    /\ variant \in {"flow", "p003"}
    /\ \E output \in ModelOutputs :
          /\ outcome' = [kind |-> "return", v |-> output]
          /\ Finished(Flow(textContent, output))

ModelReturns002 ==
    /\ pc = "calling"
    /\ variant = "p002"
    /\ \E output \in TextOutputs :
          /\ outcome' = [kind |-> "return", v |-> output]
          /\ Finished(Flow002(textContent, output))

\* The model call rejects with error; the wrapper's catch runs.
ModelThrows ==
    /\ pc = "calling"
    /\ variant \in {"flow", "p003"}
    /\ \E error \in ThrownValues :
          /\ outcome' = [kind |-> "throw", v |-> error]
          /\ LET c == Catch(variant, textContent, error)
             IN  Finished(IF c.kind = "output" THEN c
                          ELSE [kind |-> "raised", whole |-> "none", perLine |-> FALSE,
                                candidates |-> <<>>])

\* part_002 has no catch: the rejection reaches the caller.
ModelThrows002 ==
    /\ pc = "calling"
    /\ variant = "p002"
    /\ \E error \in ThrownValues :
          /\ outcome' = [kind |-> "throw", v |-> error]
          /\ Finished([kind |-> "raised", whole |-> "none", perLine |-> FALSE,
                       candidates |-> <<>>])

\* The caller has taken the result; nothing of the invocation is kept and
\* the next invocation can start.
Return ==
    /\ pc = "done"
    /\ pc' = "idle"
    /\ variant' = "flow"
    /\ textContent' = <<>>
    /\ outcome' = NoOutcome
    /\ result' = NoResult
    /\ wholeParse' = "none"
    /\ perLine' = FALSE
    /\ modelCalls' = 0
    /\ candidates' = <<>>
    /\ UNCHANGED <<cand, lineResult>>
    /\ UNCHANGED <<appVars, invocations>>

Next ==
    \/ Invoke
    \/ ModelReturns
    \/ ModelReturns002
    \/ ModelThrows
    \/ ModelThrows002
    \/ Return

Spec == Init /\ [][Next]_vars

(***************************************************************************)
(* The validator on its own: one candidate through the body of the map     *)
(***************************************************************************)
Absent == [t |-> "absent"]

EntidadValues == {Absent, JStr("BancoX"), JStr(""), JNum(5), JNull}
PolaridadValues ==
    {Absent, JStr("Amor"), JStr("Odio"), JStr("amor"), JStr("Indiferente"),
     JBool(TRUE)}
CategoriaValues ==
    {Absent, JArr(<<>>), JArr(<<JStr("App")>>),
     JArr(<<JStr("Atención"), JStr("Cajeros")>>),
     JArr(<<JStr("App"), JStr("Otro")>>), JStr("App"), JArr(<<JNum(1)>>)}
UrgenciaValues ==
    {Absent, JBool(TRUE), JBool(FALSE), JStr("true"), JNum(1), JNull}
ExtraValues == {Absent, JStr("nota")}

\* The object with the fields that are not absent
ObjectOf(e, p, c, u, x) ==
    LET all == [entidad |-> e, polaridad |-> p, categoria |-> c,
                urgencia |-> u, comentario |-> x]
    IN  JObj([n \in {m \in DOMAIN all : all[m] # Absent} |-> all[n]])

CandidateObjects ==
    {ObjectOf(e, p, c, u, x) :
        e \in EntidadValues, p \in PolaridadValues, c \in CategoriaValues,
        u \in UrgenciaValues, x \in ExtraValues}

CandidateValues ==
    CandidateObjects
    \cup {JUndef, JNull, JNum(0), JNum(7), JStr(""), JStr("hola"),
          JBool(TRUE), JBool(FALSE), JArr(<<>>), JArr(<<R1>>)}

\* Any candidate value can stand at jsonResults[index]
InitValidator ==
    /\ pc = "idle"
    /\ variant = "flow"
    /\ textContent = <<>>
    /\ outcome = NoOutcome
    /\ result = NoResult
    /\ wholeParse = "none"
    /\ perLine = FALSE
    /\ modelCalls = 0
    /\ candidates = <<>>
    /\ cand \in CandidateValues
    /\ lineResult = NoLine
    /\ Mounted("part_001")
    /\ NotLoaded
    /\ NoInvocations

\* const candidate = jsonResults[index]; if (candidate) { try ... catch ... }
ValidateCandidate ==
    /\ lineResult = NoLine
    /\ lineResult' = ValidateLine(<<"a">>, cand)
    /\ UNCHANGED <<pc, variant, textContent, outcome, result, wholeParse,
                   perLine, modelCalls, candidates, cand>>
    /\ UNCHANGED <<appVars, invocations>>

NextValidator == ValidateCandidate

SpecValidator == InitValidator /\ [][NextValidator]_vars

(***************************************************************************)
(* The evaluation dashboard                                                *)
(***************************************************************************)
Revisions == {"part_000", "part_001"}

\* What the student can type: nothing, only whitespace, an instruction after
\* a space, and another instruction
Instructions == {<<>>, <<" ">>, <<" ", "a">>, <<"b">>}

\* The texts of the files the student can choose
Files == {<<>>, <<"a">>, <<"a", "\n", "a">>}

\* What the model call of an evaluation can do
CallOutcomes ==
    {[kind |-> "return", v |-> JText(JSONstringify(JArr(<<R1, RBad>>)).k)],
     [kind |-> "return", v |-> JText(<<"not json">>)],
     [kind |-> "throw", v |-> JObj([message |-> JStr("quota exceeded")])],
     [kind |-> "throw", v |-> JUndef]}

\* An ExtractAndValidateFeedbackOutput
Output(r) ==
    [t |-> "output", rawResponse |-> r.rawResponse,
     validatedResults |-> r.validatedResults]

\* await extractAndValidateFeedback(input), for the outcome oc of its model
\* call: the output it resolves with, or "raised" when it rejects
ExtractAndValidateFeedback(v, input, oc) ==
    LET r == IF oc.kind = "return"
             THEN IF v = "p002" THEN Flow002(input.textContent, oc.v)
                  ELSE Flow(input.textContent, oc.v)
             ELSE IF v = "p002" THEN [kind |-> "raised"]
                  ELSE Catch(v, input.textContent, oc.v)
    IN  IF r.kind = "output" THEN [kind |-> "output", output |-> Output(r)]
        ELSE [kind |-> "raised"]

\* The guard of runEvaluation, which is also the condition of its button:
\* !systemInstruction.trim() || !fileContent in part_001,
\* !systemInstruction || !fileContent in part_000
GuardPasses ==
    /\ IF revision = "part_001" THEN Trim(systemInstruction) # <<>>
       ELSE systemInstruction # <<>>
    /\ Truthy(fileContent)

\* The instruction runEvaluation hands on: systemInstruction.trim() in
\* part_001, systemInstruction in part_000
Handed(instruction) ==
    IF revision = "part_001" THEN Trim(instruction) ELSE instruction

\* A value as JSON.stringify writes it inside an object: undefined as null
Jsonable(v) == IF v.t = "undef" THEN JNull ELSE v

\* JSON.stringify(newHistory): the item that localStorage keeps, record by
\* record and line by line
StringifyHistory(h) ==
    [t |-> "json",
     records |->
        [i \in 1..Len(h) |->
            [id |-> h[i].id,
             systemInstruction |-> h[i].systemInstruction,
             score |-> h[i].score,
             total |-> h[i].total,
             results |->
                [t |-> "output",
                 rawResponse |-> h[i].results.rawResponse,
                 validatedResults |->
                    [j \in 1..Len(h[i].results.validatedResults) |->
                        LET line == h[i].results.validatedResults[j]
                        IN  [originalText |-> line.originalText,
                             parsedResult |-> Jsonable(line.parsedResult),
                             validationStatus |-> line.validationStatus]]]]]]

\* savedHistory ? JSON.parse(savedHistory) : the history stays []
SavedHistory(item) == IF Truthy(item) THEN item.records ELSE <<>>

\* localStorage.getItem(`uees_history_${name}`): null when nothing is stored
GetItem(name) == IF name \in DOMAIN storage THEN storage[name] ELSE JNull

\* The page renders the dashboard: mounted and studentName truthy
DashboardShown == mounted /\ Truthy(studentName)

\* The page renders the login form: mounted and studentName falsy
LoginShown == mounted /\ ~Truthy(studentName)

\* A dashboard mounts for the student name: the initial values of its
\* useState hooks, then the effect that loads the saved history
DashboardMounts(name) ==
    /\ systemInstruction' = <<>>
    /\ fileContent' = JNull
    /\ fileName' = JNull
    /\ reading' = JNull
    /\ isProcessing' = FALSE
    /\ currentResult' = JNull
    /\ producedBy' = JNull
    /\ history' = SavedHistory(GetItem(name))
    /\ call' = NoCall

\* The dashboard unmounts: its state is gone, a runEvaluation that awaits
\* goes on without it
DashboardUnmounts ==
    /\ systemInstruction' = <<>>
    /\ fileContent' = JNull
    /\ fileName' = JNull
    /\ reading' = JNull
    /\ isProcessing' = FALSE
    /\ currentResult' = JNull
    /\ producedBy' = JNull
    /\ history' = <<>>
    /\ call' = NoCall

\* The student ana is logged in and the dashboard has mounted
InitDashboard ==
    /\ pc = "idle"
    /\ variant \in Variants
    /\ textContent = <<>>
    /\ outcome = NoOutcome
    /\ result = NoResult
    /\ wholeParse = "none"
    /\ perLine = FALSE
    /\ modelCalls = 0
    /\ candidates = <<>>
    /\ cand = JUndef
    /\ lineResult = NoLine
    /\ \E r \in Revisions : Mounted(r)
    /\ mounted = TRUE
    /\ studentName = JText(<<"a", "n", "a">>)
    /\ storedName = JText(<<"a", "n", "a">>)
    /\ loginName = <<>>
    /\ storage = [s \in Students |-> JNull]
    /\ orphans = <<>>
    /\ budget = MaxHistory
    /\ NoInvocations

\* onChange of the instruction field, which part_001 disables while a result
\* is shown or an evaluation is processing
EditInstruction ==
    /\ DashboardShown
    /\ revision = "part_001" => (currentResult = JNull /\ ~isProcessing)
    /\ \E s \in Instructions : systemInstruction' = s
    /\ UNCHANGED <<revision, fileContent, fileName, reading, isProcessing,
                   currentResult, history, producedBy, call>>
    /\ UNCHANGED <<flowVars, pageVars, storage, orphans, budget, invocations>>

\* The eraser button of part_001: setSystemInstruction("")
ClearInstruction ==
    /\ DashboardShown
    /\ revision = "part_001"
    /\ currentResult = JNull /\ ~isProcessing
    /\ systemInstruction' = <<>>
    /\ UNCHANGED <<revision, fileContent, fileName, reading, isProcessing,
                   currentResult, history, producedBy, call>>
    /\ UNCHANGED <<flowVars, pageVars, storage, orphans, budget, invocations>>

\* handleFileUpload: the name is set and a FileReader starts on the file
\* (one reader at a time)
HandleFileUpload ==
    /\ DashboardShown
    /\ revision = "part_001" => (currentResult = JNull /\ ~isProcessing)
    /\ reading = JNull
    /\ \E f \in Files : reading' = JText(f)
    /\ fileName' = JStr("ejemplos.txt")
    /\ UNCHANGED <<revision, systemInstruction, fileContent, isProcessing,
                   currentResult, history, producedBy, call>>
    /\ UNCHANGED <<flowVars, pageVars, storage, orphans, budget, invocations>>

\* reader.onload: setFileContent(event.target.result)
ReaderOnload ==
    /\ DashboardShown
    /\ reading # JNull
    /\ fileContent' = reading
    /\ reading' = JNull
    /\ UNCHANGED <<revision, systemInstruction, fileName, isProcessing,
                   currentResult, history, producedBy, call>>
    /\ UNCHANGED <<flowVars, pageVars, storage, orphans, budget, invocations>>

\* A new attempt that keeps the loaded file
StartNewAttemptKeepsFile ==
    /\ DashboardShown
    /\ revision = "part_001"
    /\ currentResult # JNull
    /\ currentResult' = JNull
    /\ producedBy' = JNull
    /\ systemInstruction' = <<>>
    /\ UNCHANGED <<revision, fileContent, fileName, reading, isProcessing,
                   history, call>>
    /\ UNCHANGED <<flowVars, pageVars, storage, orphans, budget, invocations>>

\* startNewAttempt of part_001, whose button is there while a result is shown
StartNewAttempt ==
    /\ DashboardShown
    /\ revision = "part_001"
    /\ currentResult # JNull
    /\ currentResult' = JNull
    /\ producedBy' = JNull
    /\ systemInstruction' = <<>>
    /\ fileContent' = JNull
    /\ fileName' = JNull
    /\ UNCHANGED <<revision, reading, isProcessing, history, call>>
    /\ UNCHANGED <<flowVars, pageVars, storage, orphans, budget, invocations>>

\* A click on a record of the history: setCurrentResult(record.results) and,
\* in part_001, setSystemInstruction(record.systemInstruction)
ViewRecord ==
    /\ DashboardShown
    /\ \E i \in DOMAIN history :
          /\ currentResult' = history[i].results
          /\ producedBy' = JText(history[i].systemInstruction)
          /\ systemInstruction' = IF revision = "part_001"
                                  THEN history[i].systemInstruction
                                  ELSE systemInstruction
    /\ UNCHANGED <<revision, fileContent, fileName, reading, isProcessing,
                   history, call>>
    /\ UNCHANGED <<flowVars, pageVars, storage, orphans, budget, invocations>>

\* runEvaluation up to its await. The button is disabled while the guard
\* fails or an evaluation is processing, and part_001 shows it only while no
\* result is shown. The call keeps the systemInstruction, the history and
\* the studentName of the render it was started from.
RunEvaluation ==
    /\ DashboardShown
    /\ ~isProcessing
    /\ revision = "part_001" => currentResult = JNull
    /\ GuardPasses
    /\ budget > 0
    /\ budget' = budget - 1
    /\ currentResult' = IF revision = "part_001" THEN JNull ELSE currentResult
    /\ producedBy' = IF revision = "part_001" THEN JNull ELSE producedBy
    /\ isProcessing' = TRUE
    /\ call' = [kind |-> "awaiting",
                serial |-> budget,
                input |-> [systemInstruction |-> Handed(systemInstruction),
                           textContent |-> fileContent.k],
                systemInstruction |-> systemInstruction,
                history |-> history,
                studentName |-> studentName.k]
    /\ UNCHANGED <<revision, systemInstruction, fileContent, fileName, reading,
                   history>>
    /\ UNCHANGED <<flowVars, pageVars, storage, orphans, invocations>>

\* The record runEvaluation builds from output. crypto.randomUUID() gives a
\* fresh id; the timestamp is left out.
RecordOf(c, output) ==
    [id |-> c.serial,
     systemInstruction |-> Handed(c.systemInstruction),
     score |-> Score(output),
     total |-> Total(output),
     results |-> output]

\* The awaited call resolves with output: the rest of the try block, then
\* finally.
CallResolves ==
    /\ DashboardShown
    /\ call.kind = "awaiting"
    /\ \E oc \in CallOutcomes :
          \E r \in {ExtractAndValidateFeedback(variant, call.input, oc)} :
             /\ r.kind = "output"
             /\ \E newHistory \in {<<RecordOf(call, r.output)>> \o call.history} :
                   \E item \in {StringifyHistory(newHistory)} :
                      /\ currentResult' = r.output
                      /\ producedBy' = JText(call.input.systemInstruction)
                      /\ history' = newHistory
                      /\ storage' = [storage EXCEPT ![call.studentName] = item]
    /\ isProcessing' = FALSE
    /\ call' = NoCall
    /\ UNCHANGED <<revision, systemInstruction, fileContent, fileName, reading>>
    /\ UNCHANGED <<flowVars, pageVars, orphans, budget, invocations>>

\* The awaited call rejects and there is no finally
CallRejectsNoFinally ==
    /\ DashboardShown
    /\ call.kind = "awaiting"
    /\ \E oc \in CallOutcomes :
          ExtractAndValidateFeedback(variant, call.input, oc).kind = "raised"
    /\ call' = NoCall
    /\ UNCHANGED <<revision, systemInstruction, fileContent, fileName, reading,
                   isProcessing, currentResult, history, producedBy>>
    /\ UNCHANGED <<flowVars, pageVars, storage, orphans, budget, invocations>>

\* The awaited call rejects: catch logs the error, then finally
CallRejects ==
    /\ DashboardShown
    /\ call.kind = "awaiting"
    /\ \E oc \in CallOutcomes :
          ExtractAndValidateFeedback(variant, call.input, oc).kind = "raised"
    /\ isProcessing' = FALSE
    /\ call' = NoCall
    /\ UNCHANGED <<revision, systemInstruction, fileContent, fileName, reading,
                   currentResult, history, producedBy>>
    /\ UNCHANGED <<flowVars, pageVars, storage, orphans, budget, invocations>>

NextDashboard ==
    \/ EditInstruction
    \/ ClearInstruction
    \/ HandleFileUpload
    \/ ReaderOnload
    \/ StartNewAttempt
    \/ ViewRecord
    \/ RunEvaluation
    \/ CallResolves
    \/ CallRejects

SpecDashboard == InitDashboard /\ [][NextDashboard]_vars

\* The call that runEvaluation awaits settles: it resolves or it rejects
CallSettles == CallResolves \/ CallRejects

SpecDashboardFair == SpecDashboard /\ WF_vars(CallSettles)

(***************************************************************************)
(* The page: mount, login, logout                                          *)
(***************************************************************************)
dashState == <<systemInstruction, fileContent, fileName, reading, isProcessing,
               currentResult, history, producedBy, call>>

\* useEffect of Home: setMounted(true), and the stored name, if there is
\* one, becomes the student, for whom the dashboard mounts
Mount ==
    /\ ~mounted
    /\ mounted' = TRUE
    /\ IF Truthy(storedName)
       THEN /\ studentName' = storedName
            /\ DashboardMounts(storedName.k)
       ELSE UNCHANGED <<studentName, dashState>>
    /\ UNCHANGED <<revision, storedName, loginName, storage, orphans, budget>>
    /\ UNCHANGED <<flowVars, invocations>>

\* onChange of the name field of the login form
TypeName ==
    /\ LoginShown
    /\ \E n \in NameInputs : loginName' = n
    /\ UNCHANGED <<dashVars, mounted, studentName, storedName, storage, orphans,
                   budget>>
    /\ UNCHANGED <<flowVars, invocations>>

\* name.trim().length >= 3 with a trimmed name of the length of the typed one
LoginAcceptsUntrimmed(name) == Len(name) >= 3

\* name.trim().length >= 3
LoginAccepts(name) == Len(Trim(name)) >= 3

\* handleSubmit of the login form: onLogin(name.trim()) for an accepted
\* name, which is handleLogin: the name is stored and becomes the student,
\* and the page shows the dashboard in place of the form
SubmitLogin ==
    /\ LoginShown
    /\ IF LoginAccepts(loginName)
       THEN /\ storedName' = JText(Trim(loginName))
            /\ studentName' = JText(Trim(loginName))
            /\ loginName' = <<>>
            /\ DashboardMounts(Trim(loginName))
       ELSE UNCHANGED <<storedName, studentName, loginName, dashState>>
    /\ UNCHANGED <<revision, mounted, storage, orphans, budget>>
    /\ UNCHANGED <<flowVars, invocations>>

\* handleLogout that keeps the stored name
HandleLogoutKeepsItem ==
    /\ UNCHANGED storedName
    /\ studentName' = JNull

\* handleLogout: localStorage.removeItem, setStudentName(null)
HandleLogout ==
    /\ storedName' = JNull
    /\ studentName' = JNull

\* The logout button of the dashboard: handleLogout, and the page shows the
\* login form in place of the dashboard
Logout ==
    /\ DashboardShown
    /\ call.kind = "awaiting" => Len(orphans) < MaxOrphans
    /\ HandleLogout
    /\ loginName' = <<>>
    /\ DashboardUnmounts
    /\ orphans' = IF call.kind = "awaiting" THEN Append(orphans, call)
                  ELSE orphans
    /\ UNCHANGED <<revision, mounted, storage, budget>>
    /\ UNCHANGED <<flowVars, invocations>>

\* The page is loaded again: every component state is as constructed, what
\* awaited is gone, localStorage stays
Reload ==
    /\ mounted
    /\ mounted' = FALSE
    /\ studentName' = JNull
    /\ loginName' = <<>>
    /\ DashboardUnmounts
    /\ orphans' = <<>>
    /\ UNCHANGED <<revision, storedName, storage, budget>>
    /\ UNCHANGED <<flowVars, invocations>>

\* Without the orphan at position i
RemoveAt(q, i) == SubSeq(q, 1, i - 1) \o SubSeq(q, i + 1, Len(q))

\* The call of an unmounted dashboard resolves with output: its setState
\* calls have no effect, localStorage.setItem writes the history of its
\* closure under the name of its closure
OrphanResolves ==
    /\ \E i \in DOMAIN orphans, oc \in CallOutcomes :
          \E r \in {ExtractAndValidateFeedback(variant, orphans[i].input, oc)} :
             /\ r.kind = "output"
             /\ \E newHistory \in
                      {<<RecordOf(orphans[i], r.output)>> \o orphans[i].history} :
                   \E item \in {StringifyHistory(newHistory)} :
                      storage' = [storage EXCEPT ![orphans[i].studentName] = item]
             /\ orphans' = RemoveAt(orphans, i)
    /\ UNCHANGED <<dashVars, pageVars, budget>>
    /\ UNCHANGED <<flowVars, invocations>>

\* The call of an unmounted dashboard rejects
OrphanRejects ==
    /\ \E i \in DOMAIN orphans, oc \in CallOutcomes :
          /\ ExtractAndValidateFeedback(variant, orphans[i].input, oc).kind = "raised"
          /\ orphans' = RemoveAt(orphans, i)
    /\ UNCHANGED <<dashVars, pageVars, storage, budget>>
    /\ UNCHANGED <<flowVars, invocations>>

\* The page before its mount effect, for the dashboard revisions revs and
\* the flow revisions flows; the browser holds one of the names stored, or
\* none
InitPage(n, revs, flows, stored) ==
    /\ pc = "idle"
    /\ variant \in flows
    /\ textContent = <<>>
    /\ outcome = NoOutcome
    /\ result = NoResult
    /\ wholeParse = "none"
    /\ perLine = FALSE
    /\ modelCalls = 0
    /\ candidates = <<>>
    /\ cand = JUndef
    /\ lineResult = NoLine
    /\ \E r \in revs : Mounted(r)
    /\ mounted = FALSE
    /\ studentName = JNull
    /\ storedName \in stored
    /\ loginName = <<>>
    /\ storage = [s \in Students |-> JNull]
    /\ orphans = <<>>
    /\ budget = n
    /\ NoInvocations

\* Sessions in which no evaluation is run
InitSession ==
    InitPage(0, Revisions, Variants, {JNull, JText(<<"e", "v", "a">>)})

NextSession ==
    \/ Mount
    \/ TypeName
    \/ SubmitLogin
    \/ Logout
    \/ Reload
    \/ EditInstruction
    \/ ClearInstruction
    \/ HandleFileUpload
    \/ ReaderOnload

SpecSession == InitSession /\ [][NextSession]_vars

\* The whole application with the current dashboard and the current flow, in
\* a browser that has stored nothing
InitApp == InitPage(MaxEvaluations, {"part_001"}, {"flow"}, {JNull})

NextApp ==
    \/ Mount
    \/ TypeName
    \/ SubmitLogin
    \/ Logout
    \/ Reload
    \/ EditInstruction
    \/ ClearInstruction
    \/ HandleFileUpload
    \/ ReaderOnload
    \/ StartNewAttempt
    \/ ViewRecord
    \/ RunEvaluation
    \/ CallResolves
    \/ CallRejects
    \/ OrphanResolves
    \/ OrphanRejects

SpecApp == InitApp /\ [][NextApp]_vars

(***************************************************************************)
(* Concurrent callers of extractAndValidateFeedback                        *)
(***************************************************************************)
Slots == 1..MaxInvocations

\* The inputs of the concurrent callers
ConcurrentInputs ==
    {[systemInstruction |-> <<"b">>, textContent |-> text] :
        text \in {<<"a">>, <<"a", "\n", "a">>}}

\* A caller invokes extractAndValidateFeedback(input); the model call starts
InvokeAt(i) ==
    /\ invocations[i].pc = "idle"
    /\ \E v \in Variants, input \in ConcurrentInputs :
          invocations' = [invocations EXCEPT
                             ![i] = [pc |-> "calling", variant |-> v,
                                     input |-> input]]
    /\ UNCHANGED <<flowVars, appVars>>

\* What the invocation gives its caller when the flow keeps the input of
\* the first caller in a variable of the module
ResultAtShared(i, oc) ==
    ExtractAndValidateFeedback(invocations[i].variant,
        IF invocations[1].pc # "idle" THEN invocations[1].input
        ELSE invocations[i].input, oc)

\* What the invocation gives its caller: the flow and the catch read the
\* input and the model outcome of the invocation, and nothing else
ResultAt(i, oc) ==
    ExtractAndValidateFeedback(invocations[i].variant, invocations[i].input, oc)

\* The model call of an invocation settles and the invocation finishes
SettleAt(i) ==
    /\ invocations[i].pc = "calling"
    /\ \E oc \in CallOutcomes :
          invocations' = [invocations EXCEPT
                             ![i] = [pc |-> "done",
                                     variant |-> invocations[i].variant,
                                     input |-> invocations[i].input,
                                     outcome |-> oc,
                                     result |-> ResultAt(i, oc)]]
    /\ UNCHANGED <<flowVars, appVars>>

\* The caller has taken the result
ReturnAt(i) ==
    /\ invocations[i].pc = "done"
    /\ invocations' = [invocations EXCEPT ![i] = IdleInvocation]
    /\ UNCHANGED <<flowVars, appVars>>

NextConcurrent ==
    \E i \in Slots :
        \/ InvokeAt(i)
        \/ SettleAt(i)
        \/ ReturnAt(i)

SpecConcurrent == Init /\ [][NextConcurrent]_vars

(***************************************************************************)
(* Properties                                                              *)
(***************************************************************************)
\* The number of non-blank lines of a text: the positions that hold the
\* first token of their line that is not whitespace.
NonBlankCount(text) ==
    Cardinality({i \in 1..Len(text) :
        /\ text[i] \notin {" ", "\n"}
        /\ \A j \in 1..(i-1) :
              (\A m \in j..(i-1) : text[m] # "\n") => text[j] = " "})

\* A value that is a feedback record: the four fields, each in its domain.
SatisfiesSchema(v) ==
    /\ v.t = "obj"
    /\ {"entidad", "polaridad", "categoria", "urgencia"} \subseteq DOMAIN v.f
    /\ v.f.entidad.t = "str"
    /\ v.f.polaridad.t = "str" /\ v.f.polaridad.s \in {"Amor", "Odio"}
    /\ v.f.categoria.t = "arr"
    /\ \A i \in DOMAIN v.f.categoria.a :
          /\ v.f.categoria.a[i].t = "str"
          /\ v.f.categoria.a[i].s \in {"Atención", "App", "Cajeros"}
    /\ v.f.urgencia.t = "bool" /\ v.f.urgencia.b \in BOOLEAN

\* rawResponse shows what the model produced: the string verbatim, or a
\* text that reads back as the structured value.
RawShowsOutput ==
    /\ result.kind = "output"
    /\ IF outcome.v.t = "text"
       THEN result.rawResponse = outcome.v.k
       ELSE JSONparse(result.rawResponse) = [ok |-> TRUE, v |-> outcome.v]

CurrentRevision == variant \in {"flow", "p003"}

\* C1: for a textContent with N non-blank lines and any model output, the
\* call returns validatedResults of length exactly N.
C1_AlignmentInvariant ==
    (pc = "done" /\ outcome.kind = "return")
        => /\ result.kind = "output"
           /\ Len(result.validatedResults) = NonBlankCount(textContent)

\* C2: extractAndValidateFeedback never raises to its caller: whatever the
\* model call returned or threw, the call resolves to an output.
C2_NeverRaises ==
    (pc = "done" /\ CurrentRevision) => result.kind = "output"

\* C3: when the model call fails, the output has one entry per non-blank
\* line, in order, every entry Failure with a null record, and rawResponse
\* is a non-empty diagnostic.
C3_FaultContainment ==
    (pc = "done" /\ outcome.kind = "throw" /\ CurrentRevision)
        => /\ result.kind = "output"
           /\ Len(result.validatedResults) = NonBlankCount(textContent)
           /\ \A i \in 1..Len(result.validatedResults) :
                 /\ result.validatedResults[i].originalText
                        = NonBlankLines(textContent)[i]
                 /\ result.validatedResults[i].validationStatus = "Failure"
                 /\ result.validatedResults[i].parsedResult = JNull
           /\ result.rawResponse # <<>>

\* C4: in every returned output a line is Success if and only if its
\* parsedResult is non-null and satisfies the schema, and a Failure line
\* has a null parsedResult.
C4_StatusIffRecord ==
    (pc = "done" /\ result.kind = "output")
        => \A i \in 1..Len(result.validatedResults) :
              LET r == result.validatedResults[i]
              IN  /\ r.validationStatus \in {"Success", "Failure"}
                  /\ r.validationStatus = "Success"
                        <=> (r.parsedResult # JNull /\ SatisfiesSchema(r.parsedResult))
                  /\ r.validationStatus = "Failure" => r.parsedResult = JNull

\* An output with a Success line and a Failure line
C4_Witness ==
    /\ pc = "done" /\ result.kind = "output"
    /\ \E i, j \in 1..Len(result.validatedResults) :
          /\ result.validatedResults[i].validationStatus = "Success"
          /\ result.validatedResults[j].validationStatus = "Failure"
          /\ candidates # <<>> /\ At(candidates, j) = RBad

\* C5: whenever the model call does not fail, rawResponse shows exactly
\* what the model produced, never a placeholder, whatever it returned.
C5_RawResponseVerbatim ==
    (pc = "done" /\ outcome.kind = "return" /\ CurrentRevision)
        => RawShowsOutput

\* C6: when the output is a string that does not parse as a whole, the
\* candidate of position i is the value parsed from line i of the raw
\* output, so line i is Success exactly when raw-output line i is a
\* schema-valid JSON record.
C6_PerLineFallback ==
    (pc = "done" /\ outcome.kind = "return" /\ outcome.v.t = "text"
        /\ ~JSONparse(outcome.v.k).ok /\ CurrentRevision)
        => /\ result.kind = "output"
           /\ \A i \in 1..Len(result.validatedResults) :
                 LET rawLines == Split(outcome.v.k)
                     q == IF i <= Len(rawLines) THEN JSONparse(rawLines[i])
                                                ELSE [ok |-> FALSE]
                 IN  result.validatedResults[i].validationStatus
                        = IF q.ok /\ SatisfiesSchema(q.v) THEN "Success"
                                                          ELSE "Failure"

\* C7: the per-line fallback is attempted only if parsing the whole raw
\* output failed.
C7_FallbackOnlyAfterFailure ==
    perLine => wholeParse = "fail"

\* C8: when K < N candidates were recovered, lines below K are validated
\* against their own candidate, the lines from K on are Failure with a null
\* record, and the call returns normally with the model output in
\* rawResponse.
C8_UnderProduction ==
    (pc = "done" /\ outcome.kind = "return" /\ CurrentRevision
        /\ Len(candidates) < NonBlankCount(textContent))
        => /\ result.kind = "output"
           /\ \A i \in 1..Len(result.validatedResults) :
                 LET r == result.validatedResults[i]
                 IN  IF i > Len(candidates)
                     THEN r.validationStatus = "Failure" /\ r.parsedResult = JNull
                     ELSE r.validationStatus = "Success"
                              <=> SatisfiesSchema(candidates[i])
           /\ RawShowsOutput

\* C9: the result of line i depends only on the candidate at position i: a
\* schema-valid candidate gives Success with that record, anything else
\* Failure with null, whatever the other candidates are.
C9_Isolation ==
    (pc = "done" /\ outcome.kind = "return" /\ result.kind = "output")
        => \A i \in 1..Len(result.validatedResults) :
              LET r == result.validatedResults[i]
                  c == At(candidates, i)
              IN  IF SatisfiesSchema(c)
                  THEN r.validationStatus = "Success" /\ r.parsedResult = c
                  ELSE r.validationStatus = "Failure" /\ r.parsedResult = JNull

\* A record outside the schema at one position, a Success at another
C9_Witness ==
    /\ pc = "done" /\ outcome.kind = "return" /\ result.kind = "output"
    /\ \E i, j \in 1..Len(result.validatedResults) :
          /\ i # j
          /\ At(candidates, j) = RBad
          /\ result.validatedResults[j].validationStatus = "Failure"
          /\ result.validatedResults[i].validationStatus = "Success"

\* C10: validation of any candidate ends in Success or Failure, and it is
\* Success if and only if the four fields are present with entidad a
\* string, polaridad 'Amor' or 'Odio', categoria an array of the three
\* categories and urgencia a boolean.
C10_ValidatorFieldChecks ==
    lineResult.validationStatus # "Pending"
        => /\ lineResult.validationStatus \in {"Success", "Failure"}
           /\ lineResult.validationStatus = "Success" <=> SatisfiesSchema(cand)
           /\ lineResult.validationStatus = "Failure"
                 => lineResult.parsedResult = JNull

\* A candidate wrong in urgencia alone is rejected
C10_Witness ==
    /\ cand = JObj([entidad |-> JStr("BancoX"), polaridad |-> JStr("Amor"),
                    categoria |-> JArr(<<JStr("App")>>),
                    urgencia |-> JStr("true")])
    /\ lineResult.validationStatus = "Failure"

\* The candidate has the four fields, polaridad, urgencia valid, entidad a
\* string and categoria an array.
WellShaped(c) ==
    /\ c.t = "obj"
    /\ {"entidad", "polaridad", "categoria", "urgencia"} \subseteq DOMAIN c.f
    /\ c.f.entidad.t = "str"
    /\ c.f.polaridad \in {JStr("Amor"), JStr("Odio")}
    /\ c.f.categoria.t = "arr"
    /\ c.f.urgencia \in {JBool(TRUE), JBool(FALSE)}

Recognized(e) == e \in {JStr("Atención"), JStr("App"), JStr("Cajeros")}

\* C11: a candidate with entidad '' and/or categoria [] and the other
\* fields valid is Success with the record attached; a categoria with an
\* unrecognized element rejects the whole record.
C11_EmptyValuesAccepted ==
    (lineResult.validationStatus # "Pending" /\ WellShaped(cand))
        => LET cat == cand.f.categoria.a
               allKnown == \A i \in DOMAIN cat : Recognized(cat[i])
           IN  /\ (allKnown /\ (cand.f.entidad = JStr("") \/ cat = <<>>))
                     => /\ lineResult.validationStatus = "Success"
                        /\ lineResult.parsedResult.t = "obj"
                        /\ \A n \in {"entidad", "polaridad", "categoria", "urgencia"} :
                              lineResult.parsedResult.f[n] = cand.f[n]
               /\ ~allKnown
                     => /\ lineResult.validationStatus = "Failure"
                        /\ lineResult.parsedResult = JNull

\* An empty entidad with an empty categoria has been accepted
C11_Witness ==
    /\ cand = JObj([entidad |-> JStr(""), polaridad |-> JStr("Odio"),
                    categoria |-> JArr(<<>>), urgencia |-> JBool(TRUE)])
    /\ lineResult.validationStatus = "Success"
    /\ lineResult.parsedResult = cand

\* C12: a candidate with the four fields valid and fields outside the
\* schema is not rejected: its line is Success.
C12_ExtraFieldsLenient ==
    (/\ lineResult.validationStatus # "Pending"
     /\ WellShaped(cand)
     /\ \A i \in DOMAIN cand.f.categoria.a : Recognized(cand.f.categoria.a[i])
     /\ DOMAIN cand.f # {"entidad", "polaridad", "categoria", "urgencia"})
        => lineResult.validationStatus = "Success"

\* A record with the extra field comentario has been accepted
C12_Witness ==
    /\ cand = JObj([entidad |-> JStr("BancoX"), polaridad |-> JStr("Amor"),
                    categoria |-> JArr(<<JStr("App")>>), urgencia |-> JBool(FALSE),
                    comentario |-> JStr("nota")])
    /\ lineResult.validationStatus = "Success"

\* The lines of a text, as pairs of the positions around them: 0, the
\* positions of the line breaks and Len + 1.
LineBreaks(text) ==
    {0, Len(text) + 1} \cup {p \in 1..Len(text) : text[p] = "\n"}

LineSpans(text) ==
    {s \in LineBreaks(text) \X LineBreaks(text) :
        /\ s[1] < s[2]
        /\ \A p \in LineBreaks(text) : ~(s[1] < p /\ p < s[2])}

\* The spans of the lines that hold something else than spaces
NonBlankSpans(text) ==
    {s \in LineSpans(text) : \E p \in (s[1]+1)..(s[2]-1) : text[p] # " "}

\* line is the i-th non-blank line of text, verbatim
IsNthNonBlankLine(text, i, line) ==
    \E s \in NonBlankSpans(text) :
        /\ Cardinality({u \in NonBlankSpans(text) : u[1] < s[1]}) = i - 1
        /\ line = SubSeq(text, s[1] + 1, s[2] - 1)

\* C13: no entry of validatedResults has an empty or whitespace-only
\* originalText, and the candidate of position i is matched with the i-th
\* non-blank line of textContent.
C13_BlankLinesTakeNoPosition ==
    (pc = "done" /\ result.kind = "output")
        => \A i \in 1..Len(result.validatedResults) :
              LET r == result.validatedResults[i]
              IN  /\ \E p \in DOMAIN r.originalText : r.originalText[p] # " "
                  /\ IsNthNonBlankLine(textContent, i, r.originalText)
                  /\ outcome.kind = "return"
                        => (r.validationStatus = "Success"
                               <=> SatisfiesSchema(At(candidates, i)))

\* C14: in every returned output validatedResults[i].originalText is the
\* i-th non-blank line of textContent verbatim, in the order of the input.
C14_OriginalTextVerbatim ==
    (pc = "done" /\ result.kind = "output" /\ CurrentRevision)
        => /\ Len(result.validatedResults)
                 = Cardinality(NonBlankSpans(textContent))
           /\ \A i \in 1..Len(result.validatedResults) :
                 IsNthNonBlankLine(textContent, i,
                                   result.validatedResults[i].originalText)

\* A line kept with the space in front of it, after a blank line
C14_Witness ==
    /\ pc = "done" /\ result.kind = "output" /\ CurrentRevision
    /\ textContent = <<"\n", " ", "a">>
    /\ Len(result.validatedResults) = 1
    /\ result.validatedResults[1].originalText = <<" ", "a">>

\* C15: a structured output that is an array gives its elements as the
\* candidates, in order; a single object is the one candidate of line 0,
\* so every other line is Failure.
C15_StructuredOutput ==
    (pc = "done" /\ outcome.kind = "return" /\ outcome.v.t \in {"arr", "obj"})
        => /\ result.kind = "output"
           /\ \A i \in 1..Len(result.validatedResults) :
                 LET r == result.validatedResults[i]
                     c == IF outcome.v.t = "arr" THEN At(outcome.v.a, i)
                          ELSE IF i = 1 THEN outcome.v ELSE JUndef
                 IN  IF SatisfiesSchema(c)
                     THEN r.validationStatus = "Success" /\ r.parsedResult = c
                     ELSE r.validationStatus = "Failure" /\ r.parsedResult = JNull

\* The single object R1 for two lines: line 0 Success, line 1 Failure
C15_Witness ==
    /\ pc = "done" /\ outcome.kind = "return" /\ outcome.v = R1
    /\ result.kind = "output"
    /\ Len(result.validatedResults) = 2
    /\ result.validatedResults[1].validationStatus = "Success"
    /\ result.validatedResults[2].validationStatus = "Failure"

\* The string holds no JSON: neither as a whole nor on any of its lines.
NoJSONIn(text) ==
    /\ ~JSONparse(text).ok
    /\ \A i \in DOMAIN Split(text) : ~JSONparse(Split(text)[i]).ok

\* C16: when the model returns a string from which no sequence can be
\* recovered, the call returns normally with every line Failure and null,
\* and rawResponse is the model's string verbatim.
C16_StructuralParseFailure ==
    (pc = "done" /\ outcome.kind = "return" /\ outcome.v.t = "text"
        /\ NoJSONIn(outcome.v.k))
        => /\ result.kind = "output"
           /\ result.rawResponse = outcome.v.k
           /\ \A i \in 1..Len(result.validatedResults) :
                 /\ result.validatedResults[i].validationStatus = "Failure"
                 /\ result.validatedResults[i].parsedResult = JNull

\* C17: in the fault path rawResponse is a diagnostic that embeds the
\* message of the fault, and is a non-empty diagnostic when the fault
\* carries no message.
C17_DiagnosticEmbedsMessage ==
    (pc = "done" /\ outcome.kind = "throw" /\ CurrentRevision)
        => /\ result.kind = "output"
           /\ result.rawResponse # <<>>
           /\ result.rawResponse[1] \in {"Error en la evaluación: ",
                                         "Error crítico en el modelo: "}
           /\ (outcome.v.t = "obj" /\ "message" \in DOMAIN outcome.v.f
                  /\ outcome.v.f.message.s # "")
                 => \E p \in DOMAIN result.rawResponse :
                       result.rawResponse[p] = outcome.v.f.message.s

\* The array the model returned, as a structured value or as JSON text
ReturnedArray ==
    IF outcome.v.t = "arr" THEN [ok |-> TRUE, a |-> outcome.v.a]
    ELSE IF outcome.v.t = "text" /\ JSONparse(outcome.v.k).ok
            /\ JSONparse(outcome.v.k).v.t = "arr"
    THEN [ok |-> TRUE, a |-> JSONparse(outcome.v.k).v.a]
    ELSE [ok |-> FALSE]

\* C20: a JSON array of exactly N schema-valid records for N non-blank
\* lines makes every line Success, line i carrying the four values of
\* record i, and the score N out of N.
C20_AllValidAllSuccess ==
    (/\ pc = "done" /\ outcome.kind = "return" /\ CurrentRevision
     /\ ReturnedArray.ok
     /\ Len(ReturnedArray.a) = NonBlankCount(textContent)
     /\ \A i \in DOMAIN ReturnedArray.a : SatisfiesSchema(ReturnedArray.a[i]))
        => /\ result.kind = "output"
           /\ \A i \in 1..Len(result.validatedResults) :
                 /\ result.validatedResults[i].validationStatus = "Success"
                 /\ \A n \in {"entidad", "polaridad", "categoria", "urgencia"} :
                       result.validatedResults[i].parsedResult.f[n]
                           = ReturnedArray.a[i].f[n]
           /\ Score(result) = NonBlankCount(textContent)
           /\ Total(result) = NonBlankCount(textContent)

\* The text of the array [R1, R2] for two lines: 2 out of 2
C20_Witness ==
    /\ pc = "done" /\ outcome.kind = "return" /\ CurrentRevision
    /\ outcome.v.t = "text" /\ ReturnedArray.ok
    /\ ReturnedArray.a = <<R1, R2>>
    /\ textContent = <<"a", "\n", "a">>
    /\ result.kind = "output"
    /\ Score(result) = 2 /\ Total(result) = 2
    /\ result.validatedResults[2].parsedResult = R2

\* C18: the system instruction that reaches the model call is the student's
\* instruction with leading and trailing whitespace trimmed.
C18_InstructionTrimmed ==
    call.kind = "awaiting"
        => call.input.systemInstruction = Trim(call.systemInstruction)

\* C19: every evaluation the dashboard starts ends with a current result
\* that has a score, the number of its Success lines, between 0 and total.
C19_AlwaysAScore ==
    [][(isProcessing /\ ~isProcessing')
          => /\ currentResult' # JNull
             /\ 0 <= Score(currentResult')
             /\ Score(currentResult') <= Total(currentResult')]_vars

\* C21: each invocation performs exactly one model call, also when the call
\* faults, and nothing is parsed or validated before the call has resolved.
C21_OneCallThenParse ==
    /\ pc = "calling"
          => /\ modelCalls = 1
             /\ outcome = NoOutcome
             /\ wholeParse = "none" /\ ~perLine
             /\ candidates = <<>>
             /\ result = NoResult
    /\ pc = "done"
          => /\ modelCalls = 1
             /\ outcome # NoOutcome
    /\ wholeParse # "none" => (pc = "done" /\ outcome.kind = "return")

\* The fault path of the current revision: one call, a diagnostic, no retry
C21_Witness ==
    /\ pc = "done" /\ CurrentRevision
    /\ outcome.kind = "throw"
    /\ result.kind = "output"
    /\ modelCalls = 1

\* C24: a student is set only by a login with a name whose trimmed length is
\* at least 3, and is then the trimmed name; with a shorter name in the form
\* no step changes the student or the stored name; every student that is set
\* is a trimmed name of at least 3 characters, and the dashboard is in use
\* only while a student is set.
C24_Authentication ==
    [][/\ (LoginShown /\ Truthy(studentName'))
            => /\ LoginAccepts(loginName)
               /\ studentName' = JText(Trim(loginName))
       /\ (LoginShown /\ ~LoginAccepts(loginName))
            => /\ studentName' = studentName
               /\ storedName' = storedName
       /\ Truthy(studentName')
            => /\ Len(studentName'.k) >= 3
               /\ Trim(studentName'.k) = studentName'.k
       /\ (systemInstruction' # <<>> \/ fileName' # JNull \/ reading' # JNull)
            => (mounted' /\ Truthy(studentName'))]_vars

\* A login as ana, whose name no browser had stored, and the dashboard used
C24_Witness ==
    /\ mounted
    /\ studentName = JText(<<"a", "n", "a">>)
    /\ fileContent = JText(<<"a">>)

\* C30: once the page has mounted, the student in memory is the name in
\* local storage, after every login, logout and mount.
C30_SessionConsistency ==
    mounted => studentName = storedName

\* Logged in, and the name is stored
C30_Witness ==
    /\ mounted
    /\ Truthy(studentName)
    /\ storedName = studentName
    /\ loginName = <<>>
    /\ fileContent = JNull

C23_RecordKeeping ==
    [][\A s \in Students :
          (storage'[s] # storage[s] /\ studentName = JText(s))
             => /\ Len(history') = Len(history) + 1
                /\ Tail(history') = history
                /\ history'[1].score = Score(history'[1].results)
                /\ history'[1].total = Total(history'[1].results)
                /\ currentResult' = history'[1].results
                /\ SavedHistory(storage'[s]) = history']_vars

\* The records of a persisted history
PersistedRecords(item) ==
    {SavedHistory(item)[i] : i \in DOMAIN SavedHistory(item)}

\* C25: the persisted history of a student only grows: a record written to
\* it is in it after every later step.
C25_NoRecordLost ==
    [][\A s \in Students :
          PersistedRecords(storage[s]) \subseteq PersistedRecords(storage'[s])]_vars

\* C26: in the current dashboard, whenever a result is displayed and no
\* evaluation is processing, the instruction field shows the instruction that
\* produced the displayed result.
C26_FieldMatchesResult ==
    (/\ DashboardShown /\ revision = "part_001"
     /\ currentResult # JNull /\ ~isProcessing)
        => /\ producedBy # JNull
           /\ Trim(systemInstruction) = producedBy.k

C28_HardReset ==
    [][(revision = "part_001" /\ currentResult # JNull /\ currentResult' = JNull)
          => /\ systemInstruction' = <<>>
             /\ fileContent' = JNull
             /\ fileName' = JNull
             /\ history' = history
             /\ storage' = storage
             /\ studentName' = studentName
             /\ storedName' = storedName]_vars

\* After startNewAttempt: a record in the history, nothing shown or loaded
C28_Witness ==
    /\ revision = "part_001"
    /\ history # <<>>
    /\ currentResult = JNull /\ ~isProcessing
    /\ systemInstruction = <<>> /\ fileContent = JNull /\ fileName = JNull
    /\ SavedHistory(storage[studentName.k]) = history

\* C29: the dashboard never calls extractAndValidateFeedback with an
\* instruction that is empty or only whitespace, nor without file content.
C29_NeverEmptyInput ==
    call.kind = "awaiting"
        => /\ Trim(call.input.systemInstruction) # <<>>
           /\ call.input.textContent # <<>>

====
